---- MODULE Spec2Model ----
(***************************************************************************)
(* Verification model of the two message queues, the futures and the       *)
(* context manager of the repository.                                      *)
(*                                                                         *)
(*  - message_queue.py : MessageQueue, a blocking bounded queue with one   *)
(*    lock and three condition variables (put / get / task_done / join),   *)
(*    driven by producer and consumer threads.                             *)
(*  - threading_test.py : MessageQueue, a growable array queue with a read *)
(*    lock and a write lock, driven by fixed_producer and consumer.        *)
(*  - futures.py : Future, a function run once on a thread of its own,     *)
(*    with run / result / await_result / transform.                        *)
(*  - context_dec.py : context_manager, a class that turns a generator     *)
(*    function into a context manager.                                     *)
(*                                                                         *)
(* Blocking queue: every method body runs under self._lock, and the lock   *)
(* is given up only at the end of the `with` block or inside               *)
(* Condition.wait().  One step of the model is therefore one stretch of    *)
(* code executed with the lock held: from the acquisition (at `with`, or   *)
(* at the return from wait()) to the release (end of `with`, or wait()).   *)
(*                                                                         *)
(* Growable queue: _read_pos is written only with the read lock held,      *)
(* _append_pos only with the write lock held, and a resize runs with both  *)
(* locks held.  A consumer reads _append_pos without the write lock, so    *)
(* every such read is a step of its own; statements that touch only what   *)
(* the thread's own lock protects are joined into one step.  The producer  *)
(* of run_experiment adds the same increasing values as fixed_producer and *)
(* may stop early at the deadline; a fixed_producer that is not scheduled  *)
(* again reaches the same queue states.                                    *)
(***************************************************************************)
(* The specifications:                                                     *)
(*   Spec           the blocking queue: two producers, two consumers and   *)
(*                  two threads in join                                    *)
(*   SpecGrowable   the growable queue under stress_test: two              *)
(*                  fixed_producers and two consumers                      *)
(*   SpecGrowable1  the growable queue with one fixed_producer and one     *)
(*                  consumer                                               *)
(*   SpecRoundTrip  the growable queue used by one thread: all items are   *)
(*                  added, then they are taken out                         *)
(*   SpecAnyCapacity the blocking queue constructed with any integer       *)
(*                  capacity, zero and negative ones included              *)
(*   SpecMain       the blocking queue under main() as written (one       *)
(*                  thread in join), with fair scheduling of every thread  *)
(*   SpecUnchecked  the blocking queue with a further thread that calls    *)
(*                  task_done without having got an item                   *)
(*   SpecUnlocked   the growable queue with use_locks=False, one statement *)
(*                  of next_item per step: one producer, two consumers     *)
(*   SpecFutures    a chain of futures and two clients that call run,      *)
(*                  result and await_result on them                        *)
(*   SpecDependencies  two futures transformed from one ancestor, each     *)
(*                  run by its own client                                  *)
(*   SpecContext    one `with` statement over a context_manager, for       *)
(*                  every generator body and a block that may raise        *)
(***************************************************************************)
EXTENDS Integers, Sequences, FiniteSets, TLC

\* ------------------------------------------------------------------ bounds
\* largest capacity the blocking queue is constructed with
MaxCapacity == 2
\* how far below 1 the capacities go that MessageQueue(capacity) is tried
\* with: 1 - BelowOne is the least of them
BelowOne == 2
\* how many times task_done is called by a thread that got no item
MaxStray == 1
\* num_items of producer(): how many items prod1 and prod2 put
NumItems == 2
NumItemsSecond == 1
\* stress_test: the lengths of messages1 and messages2
ItemsFirst == 8
ItemsSecond == 1
\* the length of the message list of the single fixed_producer
ItemsSingle == 17
\* the single thread adds between _capacity + 1 and _capacity + 1 +
\* RoundTripExtra items before it takes them out
RoundTripExtra == 2

\* the length of the message list of the fixed_producer that runs against
\* consumers that take no lock
ItemsUnlocked == 3

\* from_value(v): v is drawn from 1..MaxValue
MaxValue == 2
\* the number of calls (run, await_result, result) each client thread makes
MaxCalls == 1

\* func has at most MaxBody statements
MaxBody == 4

\* ------------------------------------------------------- program constants
\* the capacity the growable queue starts with
InitialCapacity == 8
\* _popleft shrinks only above this capacity
MinCapacity == 8

\* futures.py, line 12: the result of a future that has none yet.  Every
\* value a function returns is a positive number.
NO_RESULT == -1

\* ----------------------------------------------------------------- threads
Producers == {"prod1", "prod2"}
Consumers == {"consumer1", "consumer2"}
Joiners == {"main", "main2"}
Threads == Producers \cup Consumers \cup Joiners

\* stress_test: the two fixed_producers and the two consumers
GProducers == {"producer1", "producer2"}
GConsumers == {"consumer_a", "consumer_b"}
GThreads == GProducers \cup GConsumers

\* test_multiple_dependencies: input_value = Future.from_value(2),
\* ancestor = input_value | square, result1 = ancestor | square,
\* result2 = ancestor | add_one.
Futures == {"input_value", "ancestor", "result1", "result2"}
\* the threads that call run, await_result and result on the futures
FClients == {"caller1", "caller2"}
\* Every future has a thread of its own (self._thread).
Agents == Futures \cup FClients

\* transform, line 54: the future whose await_result the function of future
\* f calls.
Parent(f) ==
    IF f = "ancestor" THEN "input_value" ELSE "ancestor"

square(num) == num * num
add_one(num) == num + 1

\* The function given to transform for future f, applied to x.
Apply(f, x) ==
    IF f = "result2" THEN add_one(x) ELSE square(x)

\* Every call a client can make: a method and the future it is called on.
AllCalls == [op : {"run", "await_result", "result"}, target : Futures]

NoThread == "nobody"
NoItem == 0
\* the None that fills the free slots of the growable queue
None == 0

\* The k-th item (k = 1, 2, ...) a producer puts.  The queue never looks at
\* an item; the items are made pairwise distinct so that a loss, a duplicate
\* or a reordering shows in the sequences.
ProducerBase(p) == IF p = "prod1" THEN 10 ELSE 20
Message(p, k) == ProducerBase(p) + k

\* main(): the num_items each producer thread is started with.
ItemsOf(p) == IF p = "prod1" THEN NumItems ELSE NumItemsSecond

\* test_race_conditions_stress: producer p adds start_val, start_val + 1, ...
\* The two ranges are disjoint.
StartVal(p) == IF p = "producer1" THEN 101 ELSE 201
GMessage(p, k) == StartVal(p) + k - 1

VARIABLES
    capacity,          \* self._capacity
    queue,             \* self._queue
    unfinished_tasks,  \* self._unfinished_tasks
    not_empty,         \* threads blocked in self._not_empty.wait()
    not_full,          \* threads blocked in self._not_full.wait()
    all_tasks_done,    \* threads blocked in self._all_tasks_done.wait()
    pc,                \* the position of every thread
    num_items,         \* producer(): the local num_items of each producer
    held,              \* consumer(): the local result of each consumer
    emptyError,        \* a deque.popleft() of the empty deque raised IndexError
    appended,          \* history: the items in the order of self._queue.append
    removed,           \* history: the items in the order of self._queue.popleft
    callMark,          \* history: -1 when the thread's current put, get or join
                       \* did not block, else what it saw when it blocked
    stray_left,        \* the task_done calls still to come from a thread that
                       \* got no item
    joinMark           \* history: -1 when no loop test of the thread's join
                       \* found the counter negative, else the number of
                       \* appends at the first test that did

\* threading_test.py
VARIABLES
    g_capacity,        \* self._capacity of the growable queue
    message_queue,     \* self._message_queue, slot i at index i + 1
    read_pos,          \* self._read_pos
    append_pos,        \* self._append_pos
    read_lock,         \* the thread holding self._read_lock
    write_lock,        \* the thread holding self._write_lock
    gpc,               \* the position of every thread of the harness
    messages,          \* fixed_producer: the number of messages of each producer
    sent,              \* fixed_producer: the number of add_item calls completed
    result,            \* the shared result list of the consumers
    terminated,        \* TerminationController.should_terminate()
    caught,            \* consumer: the number of exceptions caught
    grows,             \* history: the number of _expand_capacity calls
    shrinks,           \* history: the number of _shrink_capacity calls
    use_locks,         \* self._use_locks
    c_item,            \* consumer: the local item of each consumer
    raisedEmpty        \* history: _popleft raised its IndexError (lines 53-55)

\* the task_done calls without a get, and the history of join
tvars == <<stray_left, joinMark>>

bvars == <<capacity, queue, unfinished_tasks, not_empty, not_full,
           all_tasks_done, pc, num_items, held, emptyError, appended,
           removed, callMark, tvars>>

\* what only the statement-by-statement steps of the queue without the
\* consumers' lock change
uvars == <<use_locks, c_item, raisedEmpty>>

gvars == <<g_capacity, message_queue, read_pos, append_pos, read_lock,
           write_lock, gpc, messages, sent, result, terminated, caught,
           grows, shrinks, uvars>>

\* futures.py
VARIABLES
    f_result,          \* self._result of every future
    f_thread,          \* self._thread of every future: "initial" (not started),
                       \* "alive", "stopped" (ended) or "failed" (ended by an
                       \* exception)
    f_waiting,         \* the agents blocked in self._has_result.wait()
    f_calls,           \* history: how often set_result_func called function()
    apc,               \* the position of every agent: the thread of a future,
                       \* or a client thread
    a_op,              \* the method the agent is in: "run" or "await_result"
    a_target,          \* the future that method was called on
    a_value,           \* what the agent's last await_result or result() returned
    a_raised,          \* history: the client's last call ended with RuntimeError
    calls_left,        \* how many more calls each client makes
    from_value,        \* the value input_value was made of
    may_call           \* the calls each client can make: method and future

fvars == <<f_result, f_thread, f_waiting, f_calls, apc, a_op, a_target,
           a_value, a_raised, calls_left, from_value, may_call>>

\* context_dec.py
VARIABLES
    body,              \* the statements of func, a generator function
    block_raises,      \* whether the block of the `with` raises an exception
    gen_pos,           \* self.iterator: the statements of func already run
    executed,          \* history: how often each statement of func has run
    block_ran,         \* history: the block of the `with` has run
    cpc,               \* the position of the thread that runs the `with`
    outcome            \* how the `with` statement ended

cvars == <<body, block_raises, gen_pos, executed, block_ran, cpc, outcome>>

vars == <<bvars, gvars, fvars, cvars>>

\* ------------------------------------------------------- condition variables
\* Condition.notify(): wakes one of the threads waiting on the condition, and
\* nothing when none waits.  Which waiter is woken is not promised.
Notified(waiters) == IF waiters = {} THEN {NoThread} ELSE waiters

\* The positions after thread t moved to `next` and waiter w (if any) was
\* moved out of wait() to `woken`.
Moved(t, next, w, woken) ==
    [x \in Threads |-> IF x = t THEN next
                       ELSE IF x = w THEN woken
                       ELSE pc[x]]

\* ------------------------------------------------------------------- Init
Nones(n) == [i \in 1..n |-> None]

\* message_queue.py, MessageQueue.__init__, and the history variables.
BlockingQueueInit ==
    /\ queue = <<>>
    /\ unfinished_tasks = 0
    /\ not_empty = {}
    /\ not_full = {}
    /\ all_tasks_done = {}
    /\ held = [c \in Consumers |-> NoItem]
    /\ emptyError = FALSE
    /\ appended = <<>>
    /\ removed = <<>>
    /\ callMark = [t \in Threads |-> -1]
    /\ joinMark = [j \in Joiners |-> -1]

\* threading_test.py, MessageQueue.__init__, the empty result list and the
\* TerminationController before its deadline.
GrowableQueueInit ==
    /\ g_capacity = InitialCapacity
    /\ message_queue = Nones(InitialCapacity)
    /\ read_pos = 0
    /\ append_pos = 0
    /\ read_lock = NoThread
    /\ write_lock = NoThread
    /\ result = <<>>
    /\ terminated = FALSE
    /\ caught = FALSE
    /\ grows = 0
    /\ shrinks = 0
    /\ sent = [p \in GProducers |-> 0]
    /\ c_item = [c \in GConsumers |-> None]
    /\ raisedEmpty = FALSE

\* No thread of message_queue.py runs.
BlockingOff ==
    /\ capacity = 1
    /\ BlockingQueueInit
    /\ stray_left = 0
    /\ pc = [t \in Threads |-> "off"]
    /\ num_items = [p \in Producers |-> 0]

\* No thread of threading_test.py runs.
GrowableOff ==
    /\ GrowableQueueInit
    /\ use_locks = TRUE
    /\ gpc = [t \in GThreads |-> "off"]
    /\ messages = [p \in GProducers |-> 0]

\* futures.py: the four futures as their constructors leave them
\* (lines 18-28), and the clients before their first call.
FuturesInit ==
    /\ f_result = [f \in Futures |-> NO_RESULT]
    /\ f_thread = [f \in Futures |-> "initial"]
    /\ f_waiting = [f \in Futures |-> {}]
    /\ f_calls = [f \in Futures |-> 0]
    /\ a_op = [a \in Agents |-> "none"]
    /\ a_target = [a \in Agents |-> "input_value"]
    /\ a_value = [a \in Agents |-> NO_RESULT]
    /\ a_raised = [c \in FClients |-> FALSE]

\* No thread of futures.py runs.
FuturesOff ==
    /\ FuturesInit
    /\ apc = [a \in Agents |-> "off"]
    /\ calls_left = [c \in FClients |-> 0]
    /\ from_value = 1
    /\ may_call = [c \in FClients |-> {}]

\* No `with` statement of context_dec.py runs.
ContextOff ==
    /\ body = <<>>
    /\ block_raises = FALSE
    /\ gen_pos = 0
    /\ executed = <<>>
    /\ block_ran = FALSE
    /\ cpc = "off"
    /\ outcome = "none"

\* main() of message_queue.py, with a second thread that calls join.
Init ==
    /\ FuturesOff
    /\ ContextOff
    /\ capacity \in 1..MaxCapacity
    /\ BlockingQueueInit
    /\ stray_left = 0
    /\ pc = [t \in Threads |-> IF t \in Producers THEN "put"
                               ELSE IF t \in Consumers THEN "get"
                               ELSE "join"]
    /\ num_items = [p \in Producers |-> ItemsOf(p)]
    /\ GrowableOff

\* main() with MessageQueue(capacity) for any integer capacity: __init__
\* stores the argument as it is given.
InitAnyCapacity ==
    /\ FuturesOff
    /\ ContextOff
    /\ capacity \in (1 - BelowOne)..MaxCapacity
    /\ BlockingQueueInit
    /\ stray_left = 0
    /\ pc = [t \in Threads |-> IF t \in Producers THEN "put"
                               ELSE IF t \in Consumers THEN "get"
                               ELSE "join"]
    /\ num_items = [p \in Producers |-> ItemsOf(p)]
    /\ GrowableOff

\* stress_test(messages1, messages2).
InitGrowable ==
    /\ BlockingOff
    /\ FuturesOff
    /\ ContextOff
    /\ GrowableQueueInit
    /\ use_locks = TRUE
    /\ gpc = [t \in GThreads |-> IF t \in GProducers THEN "add_item" ELSE "loop"]
    /\ messages = [p \in GProducers |->
                      IF p = "producer1" THEN ItemsFirst ELSE ItemsSecond]

\* One fixed_producer and one consumer on one queue.
InitGrowable1 ==
    /\ BlockingOff
    /\ FuturesOff
    /\ ContextOff
    /\ GrowableQueueInit
    /\ use_locks = TRUE
    /\ gpc = [t \in GThreads |-> IF t = "producer1" THEN "add_item"
                                 ELSE IF t = "consumer_a" THEN "loop"
                                 ELSE "off"]
    /\ messages = [p \in GProducers |-> IF p = "producer1" THEN ItemsSingle ELSE 0]

\* One thread: it adds its items first and takes them out afterwards.
InitRoundTrip ==
    /\ BlockingOff
    /\ FuturesOff
    /\ ContextOff
    /\ GrowableQueueInit
    /\ use_locks = TRUE
    /\ gpc = [t \in GThreads |-> IF t = "producer1" THEN "add_item"
                                 ELSE IF t = "consumer_a" THEN "hold"
                                 ELSE "off"]
    /\ \E n \in (InitialCapacity + 1)..(InitialCapacity + 1 + RoundTripExtra) :
          messages = [p \in GProducers |-> IF p = "producer1" THEN n ELSE 0]

\* -------------------------------------------------------------- producer
\* producer(), lines 61 and 65: after a put returns, `num_items -= 1` and the
\* loop test decide whether the producer calls put again or ends.
AfterPut(p) == IF num_items[p] - 1 > 0 THEN "put" ELSE "done"

\* put() without line 34: the append is not announced to a waiting consumer.
PutAppend_NoNotify(p) ==
    LET item == Message(p, ItemsOf(p) - num_items[p] + 1) IN
    /\ queue' = Append(queue, item)
    /\ appended' = Append(appended, item)
    /\ unfinished_tasks' = unfinished_tasks + 1
    /\ pc' = [pc EXCEPT ![p] = AfterPut(p)]
    /\ num_items' = [num_items EXCEPT ![p] = @ - 1]
    /\ callMark' = [callMark EXCEPT ![p] = -1]
    /\ UNCHANGED <<capacity, not_empty, not_full, all_tasks_done, held,
                   emptyError, removed>>

\* put(), lines 32-34, and the producer's steps up to its next call of put:
\* append, count the task, notify one consumer.
PutAppend(p) ==
    LET item == Message(p, ItemsOf(p) - num_items[p] + 1) IN
    /\ queue' = Append(queue, item)
    /\ appended' = Append(appended, item)
    /\ unfinished_tasks' = unfinished_tasks + 1
    /\ \E w \in Notified(not_empty) :
          /\ not_empty' = not_empty \ {w}
          /\ pc' = Moved(p, AfterPut(p), w, "get_woken")
    /\ num_items' = [num_items EXCEPT ![p] = @ - 1]
    /\ callMark' = [callMark EXCEPT ![p] = -1]
    /\ UNCHANGED <<capacity, not_full, all_tasks_done, held, emptyError, removed>>

\* put(), line 31: self._not_full.wait() gives up the lock and blocks.
\* callMark keeps the number of removals so far when the put first blocks.
PutWait(p) ==
    /\ not_full' = not_full \cup {p}
    /\ pc' = [pc EXCEPT ![p] = "put_wait"]
    /\ callMark' = [callMark EXCEPT ![p] = IF @ = -1 THEN Len(removed) ELSE @]
    /\ UNCHANGED <<capacity, queue, unfinished_tasks, not_empty, all_tasks_done,
                   num_items, held, emptyError, appended, removed>>

\* put(), line 30: one evaluation of the loop condition, then wait or append.
PutCheck(p) ==
    IF Len(queue) >= capacity THEN PutWait(p) ELSE PutAppend(p)

\* put() entered: the lock is taken and the loop condition evaluated.
Put(p) ==
    /\ pc[p] = "put"
    /\ PutCheck(p)
    /\ UNCHANGED <<gvars, fvars, cvars, tvars>>

\* put() without the re-check: what `if` in place of `while` would do.
PutAfterWait_NoRecheck(p) ==
    /\ pc[p] = "put_woken"
    /\ PutAppend(p)
    /\ UNCHANGED <<gvars, fvars, cvars, tvars>>

\* put() returning from wait(): the lock is taken again and the loop
\* condition is evaluated again.
PutAfterWait(p) ==
    /\ pc[p] = "put_woken"
    /\ PutCheck(p)
    /\ UNCHANGED <<gvars, fvars, cvars, tvars>>

\* -------------------------------------------------------------- consumer
\* deque.popleft() taking the right end: a LIFO queue.
PopIndex_Right(q) == Len(q)

\* deque.popleft(): the index of the element it removes.
PopIndex(q) == 1

WithoutIndex(q, i) == SubSeq(q, 1, i - 1) \o SubSeq(q, i + 1, Len(q))

\* get(), lines 41-43: popleft, notify one producer, return the item.
\* popleft() of an empty deque raises IndexError, which ends the thread.
GetPop(c) ==
    IF queue = <<>>
    THEN /\ emptyError' = TRUE
         /\ pc' = [pc EXCEPT ![c] = "failed"]
         /\ UNCHANGED <<capacity, queue, unfinished_tasks, not_empty, not_full,
                        all_tasks_done, num_items, held, appended, removed,
                        callMark>>
    ELSE LET i == PopIndex(queue) IN
         /\ queue' = WithoutIndex(queue, i)
         /\ removed' = Append(removed, queue[i])
         /\ held' = [held EXCEPT ![c] = queue[i]]
         /\ \E w \in Notified(not_full) :
               /\ not_full' = not_full \ {w}
               /\ pc' = Moved(c, "task_done", w, "put_woken")
         /\ UNCHANGED <<capacity, unfinished_tasks, not_empty, all_tasks_done,
                        num_items, emptyError, appended, callMark>>

\* get(), line 40: self._not_empty.wait() gives up the lock and blocks.
\* callMark keeps the number of appends so far when the get first blocks.
GetWait(c) ==
    /\ not_empty' = not_empty \cup {c}
    /\ pc' = [pc EXCEPT ![c] = "get_wait"]
    /\ callMark' = [callMark EXCEPT ![c] = IF @ = -1 THEN Len(appended) ELSE @]
    /\ UNCHANGED <<capacity, queue, unfinished_tasks, not_full, all_tasks_done,
                   num_items, held, emptyError, appended, removed>>

\* get(), line 39: one evaluation of the loop condition, then wait or pop.
GetCheck(c) ==
    IF queue = <<>> THEN GetWait(c) ELSE GetPop(c)

\* get() entered: the lock is taken and the loop condition evaluated.
Get(c) ==
    /\ pc[c] = "get"
    /\ GetCheck(c)
    /\ UNCHANGED <<gvars, fvars, cvars, tvars>>

\* get() without the re-check: what `if` in place of `while` would do.
GetAfterWait_NoRecheck(c) ==
    /\ pc[c] = "get_woken"
    /\ GetPop(c)
    /\ UNCHANGED <<gvars, fvars, cvars, tvars>>

\* get() returning from wait(): the lock is taken again and the loop
\* condition is evaluated again.
GetAfterWait(c) ==
    /\ pc[c] = "get_woken"
    /\ GetCheck(c)
    /\ UNCHANGED <<gvars, fvars, cvars, tvars>>

\* task_done() decrementing twice.
TaskDoneCount_Twice(n) == n - 2

\* task_done(), line 47.
TaskDoneCount(n) == n - 1

\* task_done(), called by consumer() after the get: decrement, notify one
\* thread waiting in join; the consumer then loops to its next get.
TaskDone(c) ==
    /\ pc[c] = "task_done"
    /\ unfinished_tasks' = TaskDoneCount(unfinished_tasks)
    /\ held' = [held EXCEPT ![c] = NoItem]
    /\ \E w \in Notified(all_tasks_done) :
          /\ all_tasks_done' = all_tasks_done \ {w}
          /\ pc' = Moved(c, "get", w, "join_woken")
    /\ callMark' = [callMark EXCEPT ![c] = -1]
    /\ UNCHANGED <<capacity, queue, not_empty, not_full, num_items, emptyError,
                   appended, removed>>
    /\ UNCHANGED <<gvars, fvars, cvars, tvars>>

\* ------------------------------------------------------------------ join
\* join(), line 55: self._all_tasks_done.wait().
\* callMark records that the join blocked, joinMark the number of appends
\* when the loop test first found the counter negative.
JoinWait(j) ==
    /\ all_tasks_done' = all_tasks_done \cup {j}
    /\ pc' = [pc EXCEPT ![j] = "join_wait"]
    /\ callMark' = [callMark EXCEPT ![j] = 0]
    /\ joinMark' = [joinMark EXCEPT ![j] = IF unfinished_tasks < 0 /\ @ = -1
                                          THEN Len(appended) ELSE @]

\* join() returns.
JoinReturn(j) ==
    /\ pc' = [pc EXCEPT ![j] = "done"]
    /\ UNCHANGED <<all_tasks_done, callMark, joinMark>>

\* join() that waits only while the counter is positive.
JoinCheck_WhilePositive(j) ==
    /\ IF unfinished_tasks > 0 THEN JoinWait(j) ELSE JoinReturn(j)
    /\ UNCHANGED <<capacity, queue, unfinished_tasks, not_empty, not_full,
                   num_items, held, emptyError, appended, removed>>

\* join(), line 54: one evaluation of the loop condition.
JoinCheck(j) ==
    /\ IF unfinished_tasks # 0 THEN JoinWait(j) ELSE JoinReturn(j)
    /\ UNCHANGED <<capacity, queue, unfinished_tasks, not_empty, not_full,
                   num_items, held, emptyError, appended, removed>>

\* join() entered: the lock is taken and the loop condition evaluated.
Join(j) ==
    /\ pc[j] = "join"
    /\ JoinCheck(j)
    /\ UNCHANGED <<gvars, fvars, cvars, stray_left>>

\* join() without the re-check: what `if` in place of `while` would do.
JoinAfterWait_NoRecheck(j) ==
    /\ pc[j] = "join_woken"
    /\ JoinReturn(j)
    /\ UNCHANGED <<capacity, queue, unfinished_tasks, not_empty, not_full,
                   num_items, held, emptyError, appended, removed>>
    /\ UNCHANGED <<gvars, fvars, cvars, stray_left>>

\* join() returning from wait(): the lock is taken again and the loop
\* condition is evaluated again.
JoinAfterWait(j) ==
    /\ pc[j] = "join_woken"
    /\ JoinCheck(j)
    /\ UNCHANGED <<gvars, fvars, cvars, stray_left>>

\* ------------------------------------------------------------------- Next
Next ==
    \/ \E p \in Producers : Put(p)
    \/ \E p \in Producers : PutAfterWait(p)
    \/ \E c \in Consumers : Get(c)
    \/ \E c \in Consumers : GetAfterWait(c)
    \/ \E c \in Consumers : TaskDone(c)
    \/ \E j \in Joiners : Join(j)
    \/ \E j \in Joiners : JoinAfterWait(j)

Spec == Init /\ [][Next]_vars

SpecAnyCapacity == InitAnyCapacity /\ [][Next]_vars

\* ------------------------------------------------------- fair scheduling
\* main() as it is written: two producers, two consumers, and the main
\* thread as the one caller of join.
InitMain ==
    /\ FuturesOff
    /\ ContextOff
    /\ capacity \in 1..MaxCapacity
    /\ BlockingQueueInit
    /\ stray_left = 0
    /\ pc = [t \in Threads |-> IF t \in Producers THEN "put"
                               ELSE IF t \in Consumers THEN "get"
                               ELSE IF t = "main" THEN "join"
                               ELSE "off"]
    /\ num_items = [p \in Producers |-> ItemsOf(p)]
    /\ GrowableOff

\* The steps of one thread.  A thread inside wait() has no step: it is moved
\* on by the notify of another thread.
ProducerStep(p) == Put(p) \/ PutAfterWait(p)
ConsumerStep(c) == Get(c) \/ GetAfterWait(c) \/ TaskDone(c)
JoinerStep(j) == Join(j) \/ JoinAfterWait(j)

\* Every started thread that can run is scheduled again, and gets the lock
\* it asks for.
Fairness ==
    /\ \A p \in Producers : WF_vars(ProducerStep(p))
    /\ \A c \in Consumers : WF_vars(ConsumerStep(c))
    /\ \A j \in Joiners : WF_vars(JoinerStep(j))

SpecMain == InitMain /\ [][Next]_vars /\ Fairness

\* ------------------------------------------------- task_done without a get
\* main() with one thread in join, and a further thread that calls
\* queue.task_done() without having got an item, up to MaxStray times.
InitUnchecked ==
    /\ FuturesOff
    /\ ContextOff
    /\ capacity \in 1..MaxCapacity
    /\ BlockingQueueInit
    /\ stray_left = MaxStray
    /\ pc = [t \in Threads |-> IF t \in Producers THEN "put"
                               ELSE IF t \in Consumers THEN "get"
                               ELSE IF t = "main" THEN "join"
                               ELSE "off"]
    /\ num_items = [p \in Producers |-> ItemsOf(p)]
    /\ GrowableOff

\* task_done(), lines 46-48, called by the further thread: decrement, notify
\* one thread waiting in join.  Nothing in it looks at the counter or at
\* the deque.
StrayTaskDone ==
    /\ stray_left > 0
    /\ stray_left' = stray_left - 1
    /\ unfinished_tasks' = TaskDoneCount(unfinished_tasks)
    /\ \E w \in Notified(all_tasks_done) :
          /\ all_tasks_done' = all_tasks_done \ {w}
          /\ pc' = Moved(NoThread, "off", w, "join_woken")
    /\ UNCHANGED <<capacity, queue, not_empty, not_full, num_items, held,
                   emptyError, appended, removed, callMark, joinMark>>
    /\ UNCHANGED <<gvars, fvars, cvars>>

NextUnchecked ==
    \/ Next
    \/ StrayTaskDone

SpecUnchecked == InitUnchecked /\ [][NextUnchecked]_vars

\* ========================================================== growable queue
\* __len__
QueueLen == append_pos - read_pos

\* A bound i of a slice of a list of length n, as Python reads it: a negative
\* bound counts from the end, and a bound outside the list is cut to it.
PySliceIndex(i, n) ==
    IF i < 0 THEN (IF i + n < 0 THEN 0 ELSE i + n)
    ELSE (IF i > n THEN n ELSE i)

\* list[i] of a list of length n: the indices that do not raise IndexError,
\* and the slot a valid index names (a negative index counts from the end).
PyIndexValid(i, n) == -n <= i /\ i < n
PyIndex(i, n) == IF i < 0 THEN i + n ELSE i

\* _all_items taken from slot 0: the read offset forgotten.
AllItems_FromZero(buf, r, a) ==
    SubSeq(buf, 1, IF a < Len(buf) THEN a ELSE Len(buf))

\* _all_items: the slice buf[r:a], which Python cuts at the ends of the list.
AllItems(buf, r, a) ==
    SubSeq(buf, PySliceIndex(r, Len(buf)) + 1, PySliceIndex(a, Len(buf)))

\* `new[:n] = items` as a copy slot by slot that stops at the end of new.
SliceAssign_Truncating(new, n, items) ==
    SubSeq(items, 1, IF Len(items) < Len(new) THEN Len(items) ELSE Len(new))
        \o SubSeq(new, PySliceIndex(Len(items), Len(new)) + 1, Len(new))

\* The list after `new[:n] = items`: the first n slots of new (all of them
\* when new is shorter than n) are replaced by the items, however many.
SliceAssign(new, n, items) ==
    items \o SubSeq(new, PySliceIndex(n, Len(new)) + 1, Len(new))

\* Lines 44-48 and 66-70: the body shared by _shrink_capacity and
\* _expand_capacity, with the new capacity given.
Resize(newCapacity) ==
    /\ g_capacity' = newCapacity
    /\ message_queue' = SliceAssign(Nones(newCapacity), QueueLen,
                                    AllItems(message_queue, read_pos, append_pos))
    /\ read_pos' = 0
    /\ append_pos' = QueueLen

\* _popleft, line 52, taking only a read position past the append position
\* for an empty queue.
QueueEmpty_Beyond(r, a) == r > a

\* _popleft, line 52: the test that raises the IndexError of the empty queue.
QueueEmpty(r, a) == r = a

\* _popleft, line 56, with the floor not excluded.
ShrinkNeeded_AtFloor(cap, len) == cap >= MinCapacity /\ len <= cap \div 2

\* _popleft, line 56: the condition under which it shrinks.
ShrinkNeeded(cap, len) == cap > MinCapacity /\ len <= cap \div 2

\* check_has_item yielding outside the read lock whatever use_locks is.
UseLocks_Never == FALSE

\* self._use_locks, as check_has_item reads it
UseLocks == use_locks

\* --------------------------------------------------------- fixed_producer
\* After an add_item returned: the next message, or the end of the list.
AfterAdd(p) == IF sent[p] + 1 < messages[p] THEN "add_item" ELSE "done"

\* add_item, line 99, and _append, line 74: take the write lock, compare
\* _append_pos with _capacity.
AddItem(p) ==
    /\ gpc[p] = "add_item"
    /\ write_lock = NoThread
    /\ write_lock' = p
    /\ gpc' = [gpc EXCEPT ![p] = IF append_pos = g_capacity THEN "expand" ELSE "store"]
    /\ UNCHANGED <<g_capacity, message_queue, read_pos, append_pos, read_lock,
                   messages, sent, result, terminated, caught, grows, shrinks>>
    /\ UNCHANGED <<bvars, uvars, fvars, cvars>>

\* _expand_capacity without `with self._read_lock`: the resize under the
\* write lock alone.
ExpandCapacity_NoReadLock(p) ==
    /\ gpc[p] = "expand"
    /\ Resize(g_capacity * 2)
    /\ grows' = grows + 1
    /\ gpc' = [gpc EXCEPT ![p] = "store"]
    /\ UNCHANGED <<read_lock, write_lock, messages, sent, result, terminated,
                   caught, shrinks>>
    /\ UNCHANGED <<bvars, uvars, fvars, cvars>>

\* _expand_capacity: with the write lock held, take the read lock, double
\* the capacity, copy the live items to the front, give the read lock back.
ExpandCapacity(p) ==
    /\ gpc[p] = "expand"
    /\ read_lock = NoThread
    /\ Resize(g_capacity * 2)
    /\ grows' = grows + 1
    /\ gpc' = [gpc EXCEPT ![p] = "store"]
    /\ UNCHANGED <<read_lock, write_lock, messages, sent, result, terminated,
                   caught, shrinks>>
    /\ UNCHANGED <<bvars, uvars, fvars, cvars>>

\* _append, line 76: store the item at _append_pos.  A position past the end
\* of the list raises IndexError: add_item gives the write lock back and the
\* producer thread ends with the exception.
Store(p) ==
    /\ gpc[p] = "store"
    /\ IF PyIndexValid(append_pos, Len(message_queue))
       THEN /\ message_queue' =
                   [message_queue EXCEPT ![PyIndex(append_pos, Len(message_queue)) + 1] =
                                             GMessage(p, sent[p] + 1)]
            /\ gpc' = [gpc EXCEPT ![p] = "advance"]
            /\ UNCHANGED write_lock
       ELSE /\ gpc' = [gpc EXCEPT ![p] = "failed"]
            /\ write_lock' = NoThread
            /\ UNCHANGED message_queue
    /\ UNCHANGED <<g_capacity, read_pos, append_pos, read_lock, messages, sent,
                   result, terminated, caught, grows, shrinks>>
    /\ UNCHANGED <<bvars, uvars, fvars, cvars>>

\* _append, line 77, and the end of add_item: advance _append_pos, give the
\* write lock back.
Advance(p) ==
    /\ gpc[p] = "advance"
    /\ append_pos' = append_pos + 1
    /\ write_lock' = NoThread
    /\ sent' = [sent EXCEPT ![p] = @ + 1]
    /\ gpc' = [gpc EXCEPT ![p] = AfterAdd(p)]
    /\ UNCHANGED <<g_capacity, message_queue, read_pos, read_lock, messages,
                   result, terminated, caught, grows, shrinks>>
    /\ UNCHANGED <<bvars, uvars, fvars, cvars>>

\* --------------------------------------------------------------- consumer
\* _popleft, lines 58-59: self._message_queue[i] neither raises IndexError
\* nor is None (which fails the assert); and the item it then is.
SlotReadable(buf, i) ==
    /\ PyIndexValid(i, Len(buf))
    /\ buf[PyIndex(i, Len(buf)) + 1] # None
SlotAt(buf, i) == buf[PyIndex(i, Len(buf)) + 1]

\* The read lock after consumer c left the `with queue.check_has_item()`.
Released(c) == IF read_lock = c THEN NoThread ELSE read_lock

\* consumer, line 130: the loop test.
ConsumerLoop(c) ==
    /\ gpc[c] = "loop"
    /\ gpc' = [gpc EXCEPT ![c] = IF terminated THEN "done" ELSE "check_has_item"]
    /\ UNCHANGED <<g_capacity, message_queue, read_pos, append_pos, read_lock,
                   write_lock, messages, sent, result, terminated, caught,
                   grows, shrinks>>
    /\ UNCHANGED <<bvars, uvars, fvars, cvars>>

\* check_has_item, lines 81-85, and consumer, lines 131-133: take the read
\* lock (when use_locks), evaluate bool(self); with no item the consumer
\* leaves the `with` at once, which gives the lock back.
CheckHasItem(c) ==
    /\ gpc[c] = "check_has_item"
    /\ UseLocks => read_lock = NoThread
    /\ IF QueueLen > 0
       THEN /\ read_lock' = IF UseLocks THEN c ELSE read_lock
            /\ gpc' = [gpc EXCEPT ![c] = "next_item"]
       ELSE /\ gpc' = [gpc EXCEPT ![c] = "loop"]
            /\ UNCHANGED read_lock
    /\ UNCHANGED <<g_capacity, message_queue, read_pos, append_pos, write_lock,
                   messages, sent, result, terminated, caught, grows, shrinks>>
    /\ UNCHANGED <<bvars, uvars, fvars, cvars>>

\* next_item and _popleft, lines 52-57: IndexError on the empty queue, which
\* the consumer catches before it leaves the `with`; else the decision
\* whether to shrink.
NextItem(c) ==
    /\ gpc[c] = "next_item"
    /\ IF QueueEmpty(read_pos, append_pos)
       THEN /\ caught' = TRUE
            /\ raisedEmpty' = TRUE
            /\ read_lock' = Released(c)
            /\ gpc' = [gpc EXCEPT ![c] = "loop"]
       ELSE /\ gpc' = [gpc EXCEPT ![c] =
                          IF ShrinkNeeded(g_capacity, QueueLen) THEN "shrink" ELSE "read"]
            /\ UNCHANGED <<caught, raisedEmpty, read_lock>>
    /\ UNCHANGED <<g_capacity, message_queue, read_pos, append_pos, write_lock,
                   messages, sent, result, terminated, grows, shrinks,
                   use_locks, c_item>>
    /\ UNCHANGED <<bvars, fvars, cvars>>

\* _shrink_capacity: take the write lock, halve the capacity, copy the live
\* items to the front, give the write lock back.
ShrinkCapacity(c) ==
    /\ gpc[c] = "shrink"
    /\ write_lock = NoThread
    /\ Resize(g_capacity \div 2)
    /\ shrinks' = shrinks + 1
    /\ gpc' = [gpc EXCEPT ![c] = "read"]
    /\ UNCHANGED <<read_lock, write_lock, messages, sent, result, terminated,
                   caught, grows>>
    /\ UNCHANGED <<bvars, uvars, fvars, cvars>>

\* _popleft, lines 58-61, and consumer, lines 142-150: read the slot at
\* _read_pos, advance _read_pos, append the item to the result list, leave
\* the `with`.  An index past the end of the list (IndexError) or a None in
\* the slot (AssertionError) is caught by the consumer, with _read_pos and
\* the result list as they were.
Read(c) ==
    /\ gpc[c] = "read"
    /\ IF SlotReadable(message_queue, read_pos)
       THEN /\ result' = Append(result, SlotAt(message_queue, read_pos))
            /\ read_pos' = read_pos + 1
            /\ UNCHANGED caught
       ELSE /\ caught' = TRUE
            /\ UNCHANGED <<result, read_pos>>
    /\ read_lock' = Released(c)
    /\ gpc' = [gpc EXCEPT ![c] = "loop"]
    /\ UNCHANGED <<g_capacity, message_queue, append_pos, write_lock, messages,
                   sent, terminated, grows, shrinks>>
    /\ UNCHANGED <<bvars, uvars, fvars, cvars>>

\* TerminationController: the deadline passes.
Terminate ==
    /\ ~terminated
    /\ terminated' = TRUE
    /\ UNCHANGED <<g_capacity, message_queue, read_pos, append_pos, read_lock,
                   write_lock, gpc, messages, sent, result, caught, grows, shrinks>>
    /\ UNCHANGED <<bvars, uvars, fvars, cvars>>

\* The single thread has added its last item and starts to take items out.
StartTaking(c) ==
    /\ gpc[c] = "hold"
    /\ \A p \in GProducers : gpc[p] \in {"done", "failed", "off"}
    /\ gpc' = [gpc EXCEPT ![c] = "loop"]
    /\ UNCHANGED <<g_capacity, message_queue, read_pos, append_pos, read_lock,
                   write_lock, messages, sent, result, terminated, caught,
                   grows, shrinks>>
    /\ UNCHANGED <<bvars, uvars, fvars, cvars>>

NextGrowable ==
    \/ \E p \in GProducers : AddItem(p)
    \/ \E p \in GProducers : ExpandCapacity(p)
    \/ \E p \in GProducers : Store(p)
    \/ \E p \in GProducers : Advance(p)
    \/ \E c \in GConsumers : ConsumerLoop(c)
    \/ \E c \in GConsumers : CheckHasItem(c)
    \/ \E c \in GConsumers : NextItem(c)
    \/ \E c \in GConsumers : ShrinkCapacity(c)
    \/ \E c \in GConsumers : Read(c)
    \/ Terminate

NextRoundTrip ==
    \/ NextGrowable
    \/ \E c \in GConsumers : StartTaking(c)

SpecGrowable == InitGrowable /\ [][NextGrowable]_vars

SpecGrowable1 == InitGrowable1 /\ [][NextGrowable]_vars

SpecRoundTrip == InitRoundTrip /\ [][NextRoundTrip]_vars

\* ============================== growable queue, statement by statement
\* MessageQueue(use_locks=False): check_has_item takes no lock, so nothing
\* keeps two consumers apart.  Every statement of _popleft and of the
\* consumer's `with` block is then a step of its own.  add_item still holds
\* the write lock, so AddItem, Store and Advance are as above.  The producer
\* adds fewer than _capacity = 8 items: _append_pos stays below _capacity and
\* _capacity at 8, so neither _expand_capacity nor _shrink_capacity is
\* called, and the steps of a resize are not among the steps below.

\* The harness on MessageQueue(use_locks=False): one fixed_producer and the
\* two consumers.
InitUnlocked ==
    /\ BlockingOff
    /\ FuturesOff
    /\ ContextOff
    /\ GrowableQueueInit
    /\ use_locks = FALSE
    /\ gpc = [t \in GThreads |-> IF t = "producer1" THEN "add_item"
                                 ELSE IF t \in GConsumers THEN "loop"
                                 ELSE "off"]
    /\ messages = [p \in GProducers |-> IF p = "producer1" THEN ItemsUnlocked ELSE 0]

\* next_item and _popleft, lines 52-55: IndexError on the empty queue, which
\* the consumer catches (lines 142-147) before it goes round its loop.
NextItemCall(c) ==
    /\ gpc[c] = "next_item"
    /\ IF QueueEmpty(read_pos, append_pos)
       THEN /\ caught' = TRUE
            /\ raisedEmpty' = TRUE
            /\ read_lock' = Released(c)
            /\ gpc' = [gpc EXCEPT ![c] = "loop"]
       ELSE /\ gpc' = [gpc EXCEPT ![c] = "shrink_check"]
            /\ UNCHANGED <<caught, raisedEmpty, read_lock>>
    /\ UNCHANGED <<g_capacity, message_queue, read_pos, append_pos, write_lock,
                   messages, sent, result, terminated, grows, shrinks,
                   use_locks, c_item>>
    /\ UNCHANGED <<bvars, fvars, cvars>>

\* _popleft, line 56: the decision whether to shrink.
ShrinkCheck(c) ==
    /\ gpc[c] = "shrink_check"
    /\ gpc' = [gpc EXCEPT ![c] =
                  IF ShrinkNeeded(g_capacity, QueueLen) THEN "shrink" ELSE "read_slot"]
    /\ UNCHANGED <<g_capacity, message_queue, read_pos, append_pos, read_lock,
                   write_lock, messages, sent, result, terminated, caught,
                   grows, shrinks, uvars>>
    /\ UNCHANGED <<bvars, fvars, cvars>>

\* _popleft, lines 58-59: read the slot at _read_pos.  IndexError and a
\* failed assert are caught by the consumer.
ReadSlot(c) ==
    /\ gpc[c] = "read_slot"
    /\ IF SlotReadable(message_queue, read_pos)
       THEN /\ c_item' = [c_item EXCEPT ![c] = SlotAt(message_queue, read_pos)]
            /\ gpc' = [gpc EXCEPT ![c] = "advance_read"]
            /\ UNCHANGED <<caught, read_lock>>
       ELSE /\ caught' = TRUE
            /\ read_lock' = Released(c)
            /\ gpc' = [gpc EXCEPT ![c] = "loop"]
            /\ UNCHANGED c_item
    /\ UNCHANGED <<g_capacity, message_queue, read_pos, append_pos, write_lock,
                   messages, sent, result, terminated, grows, shrinks,
                   use_locks, raisedEmpty>>
    /\ UNCHANGED <<bvars, fvars, cvars>>

\* _popleft, lines 60-61: self._read_pos += 1, return the item.
AdvanceRead(c) ==
    /\ gpc[c] = "advance_read"
    /\ read_pos' = read_pos + 1
    /\ gpc' = [gpc EXCEPT ![c] = "append_result"]
    /\ UNCHANGED <<g_capacity, message_queue, append_pos, read_lock, write_lock,
                   messages, sent, result, terminated, caught, grows, shrinks,
                   uvars>>
    /\ UNCHANGED <<bvars, fvars, cvars>>

\* consumer, lines 148-150: result.append(item), then the end of the `with`.
AppendResult(c) ==
    /\ gpc[c] = "append_result"
    /\ result' = Append(result, c_item[c])
    /\ c_item' = [c_item EXCEPT ![c] = None]
    /\ read_lock' = Released(c)
    /\ gpc' = [gpc EXCEPT ![c] = "loop"]
    /\ UNCHANGED <<g_capacity, message_queue, read_pos, append_pos, write_lock,
                   messages, sent, terminated, caught, grows, shrinks,
                   use_locks, raisedEmpty>>
    /\ UNCHANGED <<bvars, fvars, cvars>>

NextUnlocked ==
    \/ \E p \in GProducers : AddItem(p)
    \/ \E p \in GProducers : Store(p)
    \/ \E p \in GProducers : Advance(p)
    \/ \E c \in GConsumers : ConsumerLoop(c)
    \/ \E c \in GConsumers : CheckHasItem(c)
    \/ \E c \in GConsumers : NextItemCall(c)
    \/ \E c \in GConsumers : ShrinkCheck(c)
    \/ \E c \in GConsumers : ReadSlot(c)
    \/ \E c \in GConsumers : AdvanceRead(c)
    \/ \E c \in GConsumers : AppendResult(c)
    \/ Terminate

SpecUnlocked == InitUnlocked /\ [][NextUnlocked]_vars

\* ================================================================ futures
\* futures.py.  A step is one stretch of a method between two points where
\* another thread can act on the same future: the test of is_alive() and the
\* call of start() in run are two steps, and what runs inside
\* `with self._has_result` is one.  Thread.start() of a thread that was
\* started before raises RuntimeError; Thread.is_alive() is true from the
\* start of the thread to its end.

\* The clients call any method on any of the four futures.
InitFutures ==
    /\ BlockingOff
    /\ GrowableOff
    /\ ContextOff
    /\ FuturesInit
    /\ apc = [a \in Agents |-> IF a \in Futures THEN "unstarted" ELSE "idle"]
    /\ calls_left = [c \in FClients |-> MaxCalls]
    /\ from_value \in 1..MaxValue
    /\ may_call = [c \in FClients |-> AllCalls]

\* test_multiple_dependencies, lines 106-107: result1.run() and
\* result2.run(), called by one client each, at any time.
InitDependencies ==
    /\ BlockingOff
    /\ GrowableOff
    /\ ContextOff
    /\ FuturesInit
    /\ apc = [a \in Agents |-> IF a \in Futures THEN "unstarted" ELSE "idle"]
    /\ calls_left = [c \in FClients |-> MaxCalls]
    /\ from_value \in 1..MaxValue
    /\ may_call = [c \in FClients |->
                      {[op |-> "run",
                        target |-> IF c = "caller1" THEN "result1" ELSE "result2"]}]

\* A client calls run() or await_result(), which both begin with line 32, or
\* result() (lines 35-38), which returns self._result at once.
ClientCall(c) ==
    /\ apc[c] = "idle"
    /\ calls_left[c] > 0
    /\ calls_left' = [calls_left EXCEPT ![c] = @ - 1]
    /\ \E call \in may_call[c] :
          /\ a_op' = [a_op EXCEPT ![c] = call.op]
          /\ a_target' = [a_target EXCEPT ![c] = call.target]
          /\ a_raised' = [a_raised EXCEPT ![c] = FALSE]
          /\ IF call.op = "result"
             THEN /\ a_value' = [a_value EXCEPT ![c] = f_result[call.target]]
                  /\ UNCHANGED apc
             ELSE /\ apc' = [apc EXCEPT ![c] = "run_check"]
                  /\ UNCHANGED a_value
    /\ UNCHANGED <<f_result, f_thread, f_waiting, f_calls, from_value, may_call>>
    /\ UNCHANGED <<bvars, gvars, cvars>>

\* Where an agent goes on when run() has returned: a client that called
\* run() is done; await_result goes on to line 43.
AfterRun(a) == IF a_op[a] = "run" THEN "idle" ELSE "await"

\* run, line 32: `not self._thread.is_alive()`.
NeedsStart(state) == state # "alive"

\* run, line 32: the test of is_alive().
RunCheck(a) ==
    /\ apc[a] = "run_check"
    /\ apc' = [apc EXCEPT ![a] =
                  IF NeedsStart(f_thread[a_target[a]]) THEN "run_start"
                  ELSE AfterRun(a)]
    /\ UNCHANGED <<f_result, f_thread, f_waiting, f_calls, a_op, a_target,
                   a_value, a_raised, calls_left, from_value, may_call>>
    /\ UNCHANGED <<bvars, gvars, cvars>>

\* run, line 33: self._thread.start().  A thread that was started before
\* makes it raise RuntimeError: a client's call ends with the error, the
\* thread of a future ends by it.
RunStart(a) ==
    /\ apc[a] = "run_start"
    /\ IF f_thread[a_target[a]] = "initial"
       THEN /\ f_thread' = [f_thread EXCEPT ![a_target[a]] = "alive"]
            /\ apc' = [apc EXCEPT ![a] = AfterRun(a),
                                  ![a_target[a]] = "function"]
            /\ UNCHANGED a_raised
       ELSE IF a \in Futures
            THEN /\ f_thread' = [f_thread EXCEPT ![a] = "failed"]
                 /\ apc' = [apc EXCEPT ![a] = "dead"]
                 /\ UNCHANGED a_raised
            ELSE /\ a_raised' = [a_raised EXCEPT ![a] = TRUE]
                 /\ apc' = [apc EXCEPT ![a] = "idle"]
                 /\ UNCHANGED f_thread
    /\ UNCHANGED <<f_result, f_waiting, f_calls, a_op, a_target, a_value,
                   calls_left, from_value, may_call>>
    /\ UNCHANGED <<bvars, gvars, cvars>>

\* await_result, lines 43-46: with the lock of the condition held, return
\* the result when there is one, else wait().
AwaitCheck(a) ==
    /\ apc[a] \in {"await", "woken"}
    /\ IF f_result[a_target[a]] = NO_RESULT
       THEN /\ f_waiting' = [f_waiting EXCEPT ![a_target[a]] = @ \cup {a}]
            /\ apc' = [apc EXCEPT ![a] = "waiting"]
            /\ UNCHANGED a_value
       ELSE /\ a_value' = [a_value EXCEPT ![a] = f_result[a_target[a]]]
            /\ apc' = [apc EXCEPT ![a] = IF a \in Futures THEN "apply" ELSE "idle"]
            /\ UNCHANGED f_waiting
    /\ UNCHANGED <<f_result, f_thread, f_calls, a_op, a_target, a_raised,
                   calls_left, from_value, may_call>>
    /\ UNCHANGED <<bvars, gvars, cvars>>

\* set_result_func, line 23: the thread of future f calls function().  For
\* from_value (line 50) that is `lambda: value`; for transform (line 54) it
\* begins with self.await_result() of the parent.
Function(f) ==
    /\ apc[f] = "function"
    /\ f_calls' = [f_calls EXCEPT ![f] = @ + 1]
    /\ IF f = "input_value"
       THEN /\ a_value' = [a_value EXCEPT ![f] = from_value]
            /\ apc' = [apc EXCEPT ![f] = "set_result"]
            /\ UNCHANGED <<a_op, a_target>>
       ELSE /\ a_op' = [a_op EXCEPT ![f] = "await_result"]
            /\ a_target' = [a_target EXCEPT ![f] = Parent(f)]
            /\ apc' = [apc EXCEPT ![f] = "run_check"]
            /\ UNCHANGED a_value
    /\ UNCHANGED <<f_result, f_thread, f_waiting, a_raised, calls_left,
                   from_value, may_call>>
    /\ UNCHANGED <<bvars, gvars, cvars>>

\* transform, line 54: function(...) applied to what await_result returned.
ApplyFunction(f) ==
    /\ apc[f] = "apply"
    /\ a_value' = [a_value EXCEPT ![f] = Apply(f, a_value[f])]
    /\ apc' = [apc EXCEPT ![f] = "set_result"]
    /\ UNCHANGED <<f_result, f_thread, f_waiting, f_calls, a_op, a_target,
                   a_raised, calls_left, from_value, may_call>>
    /\ UNCHANGED <<bvars, gvars, cvars>>

\* set_result_func, lines 24-26: store the result, notify_all.
SetResult(f) ==
    /\ apc[f] = "set_result"
    /\ f_result' = [f_result EXCEPT ![f] = a_value[f]]
    /\ f_waiting' = [f_waiting EXCEPT ![f] = {}]
    /\ apc' = [a \in Agents |-> IF a = f THEN "exit"
                                ELSE IF a \in f_waiting[f] THEN "woken"
                                ELSE apc[a]]
    /\ UNCHANGED <<f_thread, f_calls, a_op, a_target, a_value, a_raised,
                   calls_left, from_value, may_call>>
    /\ UNCHANGED <<bvars, gvars, cvars>>

\* set_result_func has returned: the thread ends and is_alive() is false
\* from now on.
ThreadExit(f) ==
    /\ apc[f] = "exit"
    /\ f_thread' = [f_thread EXCEPT ![f] = "stopped"]
    /\ apc' = [apc EXCEPT ![f] = "dead"]
    /\ UNCHANGED <<f_result, f_waiting, f_calls, a_op, a_target, a_value,
                   a_raised, calls_left, from_value, may_call>>
    /\ UNCHANGED <<bvars, gvars, cvars>>

NextFutures ==
    \/ \E c \in FClients : ClientCall(c)
    \/ \E a \in Agents : RunCheck(a)
    \/ \E a \in Agents : RunStart(a)
    \/ \E a \in Agents : AwaitCheck(a)
    \/ \E f \in Futures : Function(f)
    \/ \E f \in Futures : ApplyFunction(f)
    \/ \E f \in Futures : SetResult(f)
    \/ \E f \in Futures : ThreadExit(f)

SpecFutures == InitFutures /\ [][NextFutures]_vars

SpecDependencies == InitDependencies /\ [][NextFutures]_vars

\* ======================================================= context manager
\* context_dec.py: `with context_manager(func)(...) as value: block`, run by
\* one thread.  func is a generator function; its body is a sequence of
\* statements, each a `yield` or a plain statement, and next(self.iterator)
\* runs it from where it stands up to and including its next yield, or to
\* its end, where next raises StopIteration.

\* All bodies of func of at most n statements.
RECURSIVE Bodies(_)
Bodies(n) ==
    IF n = 0 THEN {<<>>}
    ELSE Bodies(n - 1) \cup
         {Append(b, st) : b \in {x \in Bodies(n - 1) : Len(x) = n - 1},
                          st \in {"stmt", "yield"}}

InitContext ==
    /\ BlockingOff
    /\ GrowableOff
    /\ FuturesOff
    /\ body \in Bodies(MaxBody)
    /\ block_raises \in BOOLEAN
    /\ gen_pos = 0
    /\ executed = [i \in 1..Len(body) |-> 0]
    /\ block_ran = FALSE
    /\ cpc = "init"
    /\ outcome = "none"

\* The statement of b at which a generator standing after statement pos
\* stops when it is resumed: its next yield, or its last statement.
ResumeTo(b, pos) ==
    IF \E k \in (pos + 1)..Len(b) : b[k] = "yield"
    THEN CHOOSE k \in (pos + 1)..Len(b) :
            /\ b[k] = "yield"
            /\ \A j \in (pos + 1)..(k - 1) : b[j] # "yield"
    ELSE Len(b)

\* next() returned a value (and did not raise StopIteration): the generator
\* went on from pos and stands at a yield.
Yielded(b, pos, newpos) == newpos > pos /\ b[newpos] = "yield"

\* The counts after the statements pos + 1 .. newpos have run once more.
Ran(pos, newpos) ==
    [i \in 1..Len(body) |-> IF pos < i /\ i <= newpos THEN executed[i] + 1
                            ELSE executed[i]]

\* __init__, lines 20-21: func(*args, **kwargs) makes the generator and runs
\* none of it.
ContextInit ==
    /\ cpc = "init"
    /\ cpc' = "enter"
    /\ UNCHANGED <<body, block_raises, gen_pos, executed, block_ran, outcome>>
    /\ UNCHANGED <<bvars, gvars, fvars>>

\* __enter__, lines 23-28: next(self.iterator); StopIteration becomes
\* ValueError, and then neither the block nor __exit__ runs.
ContextEnter ==
    /\ cpc = "enter"
    /\ LET newpos == ResumeTo(body, gen_pos) IN
          /\ gen_pos' = newpos
          /\ executed' = Ran(gen_pos, newpos)
          /\ IF Yielded(body, gen_pos, newpos)
             THEN /\ cpc' = "block"
                  /\ UNCHANGED outcome
             ELSE /\ cpc' = "done"
                  /\ outcome' = "ValueError: didn't yield anything"
    /\ UNCHANGED <<body, block_raises, block_ran>>
    /\ UNCHANGED <<bvars, gvars, fvars>>

\* The block of the `with` runs; it ends normally or by an exception.
WithBlock ==
    /\ cpc = "block"
    /\ block_ran' = TRUE
    /\ cpc' = "exit"
    /\ UNCHANGED <<body, block_raises, gen_pos, executed, outcome>>
    /\ UNCHANGED <<bvars, gvars, fvars>>

\* __exit__ resuming the generator only when the block raised nothing.
ExitResume_OnlyOnSuccess(b, pos, raising) ==
    IF raising THEN pos ELSE ResumeTo(b, pos)

\* __exit__, lines 31-32: next(self.iterator), whatever exc_type is.
ExitResume(b, pos, raising) == ResumeTo(b, pos)

\* __exit__, lines 30-36: resume the generator; StopIteration is expected and
\* __exit__ returns None, so an exception of the block goes on to the
\* caller; a second yield becomes ValueError.
ContextExit ==
    /\ cpc = "exit"
    /\ LET newpos == ExitResume(body, gen_pos, block_raises) IN
          /\ gen_pos' = newpos
          /\ executed' = Ran(gen_pos, newpos)
          /\ outcome' = IF Yielded(body, gen_pos, newpos)
                        THEN "ValueError: yielded multiple"
                        ELSE IF block_raises THEN "exception of the block"
                        ELSE "normal"
    /\ cpc' = "done"
    /\ UNCHANGED <<body, block_raises, block_ran>>
    /\ UNCHANGED <<bvars, gvars, fvars>>

NextContext ==
    \/ ContextInit
    \/ ContextEnter
    \/ WithBlock
    \/ ContextExit

SpecContext == InitContext /\ [][NextContext]_vars

\* ======================================================== blocking queue claims
IsPrefix(s, t) == Len(s) <= Len(t) /\ SubSeq(t, 1, Len(s)) = s

\* The items of producer p among the items of sequence s, in the order of s.
FromProducer(s, p) ==
    SelectSeq(s, LAMBDA x : \E k \in 1..ItemsOf(p) : x = Message(p, k))

\* The first n items producer p puts.
FirstMessages(p, n) == [k \in 1..n |-> Message(p, k)]

\* C1: whatever the interleaving of puts and gets, the queue never holds
\* fewer than 0 or more than capacity items.
C1_CapacityInvariant ==
    /\ capacity >= 1
    /\ 0 <= Len(queue)
    /\ Len(queue) <= capacity

\* A producer has been woken out of wait() and the queue is full again: the
\* re-check after waking is what keeps it from appending.
C1_Witness ==
    \E p \in Producers : pc[p] = "put_woken" /\ Len(queue) = capacity

\* C2: the items leave in the order they were appended: the removed items
\* are a prefix of the appended ones, what is appended and not yet removed is
\* the content of the queue in that order (nothing lost or duplicated), and
\* the items of every single producer are appended in the order it put them.
C2_Fifo ==
    /\ IsPrefix(removed, appended)
    /\ appended = removed \o queue
    /\ \A p \in Producers :
          FromProducer(appended, p) = FirstMessages(p, ItemsOf(p) - num_items[p])

\* Items of both producers have been removed, two of them out of a queue
\* that held more than one item, and one item is still queued.
C2_Witness ==
    /\ capacity >= 2
    /\ Len(removed) >= 2
    /\ \A p \in Producers : FromProducer(removed, p) # <<>>
    /\ queue # <<>>

\* C3: a get that blocked on the empty queue returns only after a later
\* append, a put that blocked on the full queue returns only after a later
\* removal, and no popleft ever meets the empty deque.
C3_BlockingCorrect ==
    [][ /\ ~emptyError'
        /\ \A c \in Consumers :
              (pc[c] # "task_done" /\ pc'[c] = "task_done" /\ callMark[c] # -1)
                  => Len(appended) > callMark[c]
        /\ \A p \in Producers :
              (num_items'[p] < num_items[p] /\ callMark[p] # -1)
                  => Len(removed) > callMark[p]
      ]_vars

\* A get that blocked on the empty queue has returned, and its removal woke
\* a put that had blocked on the full queue and now finds room.
C3_Witness ==
    /\ \E c \in Consumers : pc[c] = "task_done" /\ callMark[c] # -1
    /\ \E p \in Producers :
          /\ pc[p] = "put_woken"
          /\ Len(removed) > callMark[p]
          /\ Len(queue) < capacity

C5_AllJoinersReturn ==
    ( /\ \A p \in Producers : pc[p] = "done"
      /\ unfinished_tasks = 0
      /\ \A j \in Joiners : pc[j] \notin {"join", "join_woken"} )
    => \A j \in Joiners : pc[j] = "done"

\* The consumers that hold an item they got and have not acknowledged.
Holding == {c \in Consumers : held[c] # NoItem}

\* C6: the counter is never below the number of queued items, which is
\* never below 0, and the two are equal exactly when no consumer holds an
\* item it has not acknowledged yet.
C6_UnfinishedCount ==
    /\ unfinished_tasks >= Len(queue)
    /\ Len(queue) >= 0
    /\ (unfinished_tasks = Len(queue)) <=> (Holding = {})
    /\ unfinished_tasks = Len(queue) + Cardinality(Holding)

\* One consumer holds an unacknowledged item while items are queued.
C6_Witness ==
    /\ Holding # {}
    /\ queue # <<>>
    /\ unfinished_tasks > Len(queue)

\* ======================================================== growable queue claims
\* The items of producer p among the items of sequence s, in the order of s.
GFromProducer(s, p) ==
    SelectSeq(s, LAMBDA x : \E k \in 1..messages[p] : x = GMessage(p, k))

\* The first n messages of producer p.
GFirstMessages(p, n) == [k \in 1..n |-> GMessage(p, k)]

\* test_race_conditions_stress, lines 216-224: walking through the result
\* list, every number is the next expected value of one of the two producers.
RECURSIVE Sequential(_, _, _)
Sequential(res, next1, next2) ==
    IF res = <<>> THEN TRUE
    ELSE IF Head(res) = next1 THEN Sequential(Tail(res), next1 + 1, next2)
    ELSE IF Head(res) = next2 THEN Sequential(Tail(res), next1, next2 + 1)
    ELSE FALSE

\* C7: at every moment the result list passes the test's check: each element
\* is the next not-yet-seen value of one producer, so per producer the
\* consumed values are a prefix of the values it has finished adding, and no
\* value appears twice.
C7_Sequenced ==
    /\ Sequential(result, StartVal("producer1"), StartVal("producer2"))
    /\ \A p \in GProducers :
          /\ Len(GFromProducer(result, p)) <= sent[p]
          /\ GFromProducer(result, p) = GFirstMessages(p, Len(GFromProducer(result, p)))
    /\ Len(result) = Len(GFromProducer(result, "producer1"))
                     + Len(GFromProducer(result, "producer2"))

\* The result list holds values of both producers, taken out
\* across a grow and a shrink.
C7_Witness ==
    /\ grows >= 1
    /\ shrinks >= 1
    /\ \A p \in GProducers : Len(GFromProducer(result, p)) >= 1
    /\ Len(result) >= InitialCapacity + 1

\* A producer holds the write lock and waits for the read lock while a
\* consumer holds the read lock and waits for the write lock.
LockedUp ==
    \E p \in GProducers, c \in GConsumers :
        /\ gpc[p] = "expand" /\ write_lock = p
        /\ gpc[c] = "shrink" /\ read_lock = c

\* C8 (as the claim states it): with one producer and one consumer the
\* consumed sequence is the produced sequence in order, no thread fails, none
\* blocks forever, and once both have ended every added item was consumed.
C8_SingleProducerConsumer ==
    /\ result = GFirstMessages("producer1", Len(result))
    /\ Len(result) <= sent["producer1"]
    /\ gpc["producer1"] # "failed"
    /\ ~caught
    /\ ~LockedUp
    /\ gpc["producer1"] = "done" => sent["producer1"] = messages["producer1"]

\* C9: used by one thread, the queue doubles exactly once while the
\* capacity + 1 (or a few more) items are added, halves exactly once while
\* they are taken out, namely at the first next_item called with at most
\* half the capacity in the queue, and next_item returns the items in the
\* order they were added.
C9_RoundTrip ==
    /\ grows <= 1
    /\ shrinks <= 1
    /\ gpc["producer1"] = "done" => grows = 1
    /\ (grows = 1 /\ shrinks = 0) => (g_capacity = 2 * InitialCapacity /\ QueueLen >= InitialCapacity)
    /\ shrinks = 1 => (g_capacity = InitialCapacity /\ QueueLen <= InitialCapacity)
    /\ (gpc["producer1"] = "done" /\ QueueLen < InitialCapacity) => shrinks = 1
    /\ result = GFirstMessages("producer1", Len(result))
    /\ ~caught
    /\ Len(message_queue) = g_capacity

\* Every item has been taken out, after one doubling and one halving.
C9_Witness ==
    /\ gpc["producer1"] = "done"
    /\ messages["producer1"] = InitialCapacity + 1
    /\ Len(result) = messages["producer1"]
    /\ grows = 1
    /\ shrinks = 1

\* C10 (as the claim states it): 0 <= _read_pos <= _append_pos <= _capacity,
\* the list is _capacity long.
C10_PositionInvariant ==
    /\ 0 <= read_pos
    /\ read_pos <= append_pos
    /\ append_pos <= g_capacity
    /\ Len(message_queue) = g_capacity

\* C11: a call of next_item raises the IndexError of the empty queue exactly
\* when _read_pos = _append_pos as the call begins; the positions, the
\* capacity and the list are then as before and no shrink has run, and the
\* consumer that caught the error has appended nothing to the result list
\* and is back at the head of its loop.
C11_EmptyQueueError ==
    [][\A c \in GConsumers :
          (gpc[c] = "next_item" /\ gpc'[c] # "next_item") =>
              /\ (gpc'[c] = "loop") <=> (read_pos = append_pos)
              /\ raisedEmpty' <=> (raisedEmpty \/ read_pos = append_pos)
              /\ (read_pos = append_pos) =>
                    /\ caught'
                    /\ read_pos' = read_pos
                    /\ append_pos' = append_pos
                    /\ g_capacity' = g_capacity
                    /\ message_queue' = message_queue
                    /\ shrinks' = shrinks
                    /\ result' = result
                    /\ gpc'[c] \notin {"done", "failed"}
      ]_vars

\* A consumer saw an item, the other consumer took it, and the first one's
\* next_item met the empty queue: the error was raised and caught, and the
\* consumer is in its loop again.
C11_Witness ==
    /\ raisedEmpty
    /\ caught
    /\ read_pos = append_pos
    /\ Len(result) >= 1
    /\ \A c \in GConsumers : gpc[c] \in {"loop", "check_has_item"}

\* C12 (as the claim states it): no queue exists whose capacity is 0 or
\* less, so a put waits only on a queue that holds capacity >= 1 items.
C12_CapacityValidated ==
    /\ capacity > 0
    /\ \A p \in Producers : pc[p] = "put_wait" => Len(queue) >= 1

\* C17 (as the claim states it): in main(), queue.join() has not returned
\* before both producers have put all their items and every item has been
\* got and acknowledged by task_done.
C17_JoinWaitsForThreads ==
    pc["main"] = "done" =>
        /\ \A p \in Producers : num_items[p] = 0
        /\ Len(appended) = NumItems + NumItemsSecond
        /\ removed = appended
        /\ Holding = {}

\* C18 (as the claim states it): a consumer that check_has_item told that
\* there is an item calls next_item with the read lock given back already.
C18_LockReleasedBeforeNextItem ==
    \A c \in GConsumers : gpc[c] = "next_item" => read_lock # c

\* C18, amended: with use_locks the consumer holds the read lock from
\* check_has_item until it has left the `with`, so across next_item; the
\* queue it saw non-empty is non-empty when next_item begins, and the
\* IndexError of the empty queue is never raised.
C18_LockHeldAcrossNextItem ==
    /\ \A c \in GConsumers :
          gpc[c] \in {"next_item", "shrink", "read"} => read_lock = c
    /\ \A c \in GConsumers : gpc[c] = "next_item" => read_pos < append_pos
    /\ ~raisedEmpty

\* One item is left, a consumer that saw it is about to call next_item, and
\* the other consumer is at check_has_item, where the read lock stops it.
C18_Witness ==
    \E c \in GConsumers, d \in GConsumers :
        /\ c # d
        /\ gpc[c] = "next_item"
        /\ read_lock = c
        /\ QueueLen = 1
        /\ gpc[d] = "check_has_item"

\* C19 (as the claim states it): never does a producer hold the write lock
\* and wait for the read lock while a consumer holds the read lock and waits
\* for the write lock.
C19_NoLockCycle ==
    \A p \in GProducers, c \in GConsumers :
        ~ ( /\ gpc[p] = "expand" /\ write_lock = p /\ read_lock = c
            /\ gpc[c] = "shrink" /\ write_lock # NoThread )

\* C20: a step that resizes (it changes _capacity, and with it the list and
\* both positions) is taken by a thread that holds one lock and takes the
\* other, which is free: no other thread holds either lock, so none is in a
\* stretch of code that reads or writes the list or the positions.  Any
\* other step that changes _read_pos is taken by the consumer holding the
\* read lock, and any other step that changes _append_pos or the list by
\* the producer holding the write lock.
C20_ResizeLockCoverage ==
    [][ /\ g_capacity' # g_capacity =>
              \E t \in GThreads :
                  /\ gpc[t] \in {"expand", "shrink"}
                  /\ gpc'[t] # gpc[t]
                  /\ read_lock \in {t, NoThread}
                  /\ write_lock \in {t, NoThread}
                  /\ t \in GProducers => write_lock = t
                  /\ t \in GConsumers => read_lock = t
                  /\ \A u \in GThreads \ {t} :
                        gpc[u] \notin {"next_item", "read", "store", "advance"}
        /\ (g_capacity' = g_capacity /\ read_pos' # read_pos) =>
              \E c \in GConsumers :
                  /\ read_lock = c
                  /\ gpc[c] = "read" /\ gpc'[c] # gpc[c]
                  /\ read_pos' = read_pos + 1
        /\ (g_capacity' = g_capacity /\ append_pos' # append_pos) =>
              \E p \in GProducers :
                  /\ write_lock = p
                  /\ gpc[p] = "advance" /\ gpc'[p] # gpc[p]
                  /\ append_pos' = append_pos + 1
        /\ (g_capacity' = g_capacity /\ message_queue' # message_queue) =>
              \E p \in GProducers :
                  /\ write_lock = p
                  /\ gpc[p] = "store" /\ gpc'[p] # gpc[p]
      ]_vars

\* After a grow and a shrink, a consumer inside its `with` is about to
\* advance _read_pos, and the other consumer is at check_has_item, where the
\* read lock stops it.
C20_Witness ==
    /\ grows >= 1
    /\ shrinks >= 1
    /\ \E c \in GConsumers, d \in GConsumers :
          /\ c # d
          /\ gpc[c] = "read" /\ read_lock = c
          /\ gpc[d] = "check_has_item"

\* C21: task_done called by a thread that got no item only decrements: the
\* counter goes down by one, from 0 to -1, the deque and the histories of
\* appends and removals are as before, and no thread fails.  A loop test of
\* join that finds the counter negative puts the caller into wait().  A join
\* returns only from a state where the counter is 0, and, when one of its
\* loop tests had found the counter negative, only after a later put.
C21_TaskDoneUnchecked ==
    [][ /\ stray_left' # stray_left =>
              /\ unfinished_tasks' = unfinished_tasks - 1
              /\ unfinished_tasks = 0 => unfinished_tasks' = -1
              /\ queue' = queue
              /\ appended' = appended
              /\ removed' = removed
              /\ emptyError' = emptyError
              /\ \A t \in Threads : pc'[t] # "failed"
        /\ \A j \in Joiners :
              /\ ( /\ pc[j] \in {"join", "join_woken"}
                   /\ pc'[j] # pc[j]
                   /\ unfinished_tasks < 0 ) =>
                    /\ pc'[j] = "join_wait"
                    /\ j \in all_tasks_done'
              /\ (pc[j] # "done" /\ pc'[j] = "done") =>
                    /\ unfinished_tasks = 0
                    /\ joinMark[j] # -1 => Len(appended) > joinMark[j]
      ]_vars

\* task_done was called on the counter 0, main's join found the counter
\* negative and blocked, and it has returned after later puts.
C21_Witness ==
    /\ stray_left < MaxStray
    /\ pc["main"] = "done"
    /\ joinMark["main"] # -1
    /\ Len(appended) > joinMark["main"]
    /\ unfinished_tasks = 0

\* C22: under fair scheduling of main()'s threads, whenever a consumer is
\* in _not_empty.wait() while the deque holds an item, or a producer in
\* _not_full.wait() while the deque is below capacity, a thread woken by a
\* notify has yet to run; and every run comes to stay where both producers
\* have completed all their puts, every item put has been returned by a
\* get, the join of main has returned, and no thread is left in wait() that
\* could go on (the consumers wait on the empty deque).
C22_NoLostWakeup ==
    /\ [](\A c \in Consumers :
            (c \in not_empty /\ queue # <<>>) =>
                \E d \in Consumers : pc[d] = "get_woken")
    /\ [](\A p \in Producers :
            (p \in not_full /\ Len(queue) < capacity) =>
                \E q \in Producers : pc[q] = "put_woken")
    /\ <>[]( /\ \A p \in Producers : pc[p] = "done" /\ num_items[p] = 0
             /\ Len(appended) = NumItems + NumItemsSecond
             /\ removed = appended
             /\ queue = <<>>
             /\ not_full = {}
             /\ pc["main"] = "done" )

\* main's join blocked and has returned, both producers have ended, every
\* item was put and got, and both consumers wait for a further one.
C22_Witness ==
    /\ pc["main"] = "done"
    /\ callMark["main"] # -1
    /\ \A p \in Producers : pc[p] = "done"
    /\ Len(appended) = NumItems + NumItemsSecond
    /\ removed = appended
    /\ not_empty = Consumers
    /\ unfinished_tasks = 0

\* C23: _capacity is always 8 times a power of two, so never below 8.  A
\* consumer that decided to shrink finds _capacity above 8 until it shrinks,
\* and no step but its own shrink changes _capacity in between.  A shrink
\* halves _capacity, and the items from _read_pos to _append_pos are after
\* it what they were before it, in the same order.
C23_CapacityFloor ==
    /\ [](/\ \E k \in 0..4 : g_capacity = MinCapacity * 2^k
          /\ g_capacity >= MinCapacity
          /\ \A c \in GConsumers : gpc[c] = "shrink" => g_capacity > MinCapacity)
    /\ [][ /\ \A c \in GConsumers :
                 (gpc[c] = "shrink" /\ g_capacity' # g_capacity) =>
                     gpc'[c] = "read"
           /\ shrinks' # shrinks =>
                 /\ g_capacity > MinCapacity
                 /\ g_capacity' = g_capacity \div 2
                 /\ AllItems(message_queue', read_pos', append_pos')
                       = AllItems(message_queue, read_pos, append_pos)
                 /\ append_pos' - read_pos' = QueueLen
                 /\ result' = result
         ]_vars

\* A shrink to the floor has run after a producer added an item behind the
\* consumer's shrink test: more items are live than the capacity, and all
\* of them are in the list.
C23_Witness ==
    /\ shrinks >= 1
    /\ g_capacity = MinCapacity
    /\ QueueLen > g_capacity
    /\ Len(AllItems(message_queue, read_pos, append_pos)) = QueueLen
    /\ \A i \in 1..QueueLen : message_queue[i] # None

\* ========================================================= futures claims
\* What the function of future f returns: the functions of its ancestors and
\* its own applied to the value input_value was made of.
Expected(f) ==
    IF f = "input_value" THEN from_value
    ELSE IF f = "ancestor" THEN square(from_value)
    ELSE Apply(f, square(from_value))

\* C13 (as the claim states it): however often and from whichever threads
\* run is called on a future, its function is called at most once, exactly
\* once when its thread has ended, and no call of run ends with an error.
C13_RunIdempotent ==
    /\ \A f \in Futures : f_calls[f] <= 1
    /\ \A f \in Futures : f_thread[f] = "stopped" => f_calls[f] = 1
    /\ \A c \in FClients : a_op[c] = "run" => ~a_raised[c]

\* C14 (as the claim states it): with result1 and result2 both run, the
\* function of their ancestor is called at most once, no thread fails, and a
\* dependent whose thread has ended holds its own function applied to the
\* ancestor's result.
C14_SharedAncestor ==
    /\ f_calls["ancestor"] <= 1
    /\ \A f \in Futures : f_thread[f] # "failed"
    /\ \A c \in FClients : ~a_raised[c]
    /\ \A f \in {"result1", "result2"} :
          /\ f_result[f] # NO_RESULT =>
                f_result[f] = Apply(f, f_result["ancestor"])
          /\ f_thread[f] \notin {"initial", "alive"} => f_result[f] # NO_RESULT

\* C15 (as the claim states it): the result of a future is NO_RESULT until
\* its function has completed and the function's value from then on, and
\* never changes once it is set; result() returns one of the two;
\* await_result does not fail and returns the function's value.
C15_ResultLifecycle ==
    [][ /\ \A f \in Futures :
              /\ f_result[f] # NO_RESULT => f_result'[f] = f_result[f]
              /\ apc'[f] \notin {"exit", "dead"} => f_result'[f] = NO_RESULT
              /\ apc'[f] = "exit" => f_result'[f] = Expected(f)
        /\ \A c \in FClients :
              /\ a_op'[c] = "result" =>
                    a_value'[c] \in {NO_RESULT, Expected(a_target'[c])}
              /\ (a_op'[c] = "await_result" /\ apc'[c] = "idle") =>
                    /\ ~a_raised'[c]
                    /\ a_value'[c] = Expected(a_target'[c])
      ]_vars

\* ================================================= context manager claims
\* The number of yield statements of func.
Yields == Cardinality({i \in 1..Len(body) : body[i] = "yield"})

\* The statements of func after its first yield: the cleanup.
Cleanup == {i \in 1..Len(body) : \E k \in 1..(i - 1) : body[k] = "yield"}

\* C16: when func yields exactly once, its statements after the yield have
\* not run while the block runs and have each run exactly once when the
\* `with` is over, whether the block raised or not, and an exception of the
\* block reaches the caller; a func without a yield ends the `with` by the
\* ValueError of __enter__ before the block runs, and a func with a second
\* yield ends it by the ValueError of __exit__.
C16_CleanupOnce ==
    /\ \A i \in 1..Len(body) : executed[i] <= 1
    /\ (Yields = 1 /\ cpc \in {"block", "exit"}) =>
          \A i \in Cleanup : executed[i] = 0
    /\ (Yields = 1 /\ cpc = "done") =>
          /\ \A i \in 1..Len(body) : executed[i] = 1
          /\ block_ran
          /\ outcome = IF block_raises THEN "exception of the block" ELSE "normal"
    /\ (Yields = 0 /\ cpc = "done") =>
          /\ outcome = "ValueError: didn't yield anything"
          /\ ~block_ran
    /\ (Yields >= 2 /\ cpc = "done") =>
          /\ outcome = "ValueError: yielded multiple"
          /\ block_ran

\* A func with statements before and after its only yield, a block that
\* raised, and the `with` over: the cleanup has run and the exception of the
\* block is the outcome.
C16_Witness ==
    /\ cpc = "done"
    /\ Yields = 1
    /\ block_raises
    /\ Cleanup # {}
    /\ body[1] # "yield"
    /\ \A i \in Cleanup : executed[i] = 1
    /\ outcome = "exception of the block"

====
